---- MODULE Spec2Model ----
(***************************************************************************)
(* Model of the Nutrition Analyzer MCP server (src/main.py): the tools     *)
(* about, validate and analyze_nutrition, and the forwarder                *)
(* fetch_nutrition_data with its try/except structure.                     *)
(*                                                                         *)
(* Python and JSON values are tagged tuples <<tag, payload>>; a str is a   *)
(* sequence of text units, so that concatenation is \o and s[0] is Head.   *)
(***************************************************************************)
EXTENDS Integers, Sequences, FiniteSets, TLC

\* ------------------------------------------------------------- bounds
MaxLen == 2        \* longest food_query, in characters
MaxFoods == 2      \* longest "foods" list of a provider response
MaxPresent == 1    \* most fields present in the first food record
NumCalls == 2      \* concurrent invocations of analyze_nutrition (SpecConc)

\* ------------------------------------------------------------- values
Num(n) == <<"num", n>>
Str(s) == <<"str", s>>
Bool(b) == <<"bool", b>>
List(s) == <<"list", s>>
Obj(f) == <<"obj", f>>
None == <<"null">>

EmptyDict == [k \in {} |-> None]

\* Python truth value of a JSON value: the test of `if not data.get("foods")`.
Truthy(v) ==
    CASE v[1] = "null" -> FALSE
      [] v[1] = "bool" -> v[2]
      [] v[1] = "num"  -> v[2] # 0
      [] v[1] = "str"  -> v[2] # <<>>
      [] v[1] = "list" -> v[2] # <<>>
      [] v[1] = "obj"  -> DOMAIN v[2] # {}

\* type(v).__name__, as it appears in the text of AttributeError and TypeError.
TypeName(v) ==
    CASE v[1] = "null" -> "NoneType"
      [] v[1] = "bool" -> "bool"
      [] v[1] = "num"  -> "int"
      [] v[1] = "str"  -> "str"
      [] v[1] = "list" -> "list"
      [] v[1] = "obj"  -> "dict"

\* dict.get(key, default)
dict_get(d, key, default) == IF key \in DOMAIN d THEN d[key] ELSE default

\* ------------------------------------------------------------- exceptions
\* An exception: its class, str(e), and for McpError the ErrorData code.
Exc(cls, text, code) == <<"exc", cls, text, code>>
ExcClass(e) == e[2]
ExcText(e) == e[3]
ExcCode(e) == e[4]

INVALID_PARAMS == -32602
INTERNAL_ERROR == -32603

\* McpError(ErrorData(code, message)): str(e) is the message.
McpError(code, message) == Exc("McpError", message, code)

\* The result of a call: a returned value or a raised exception.
Return(v) == <<"return", v>>
Raise(e) == <<"raise", e>>
IsReturn(r) == r[1] = "return"
IsRaise(r) == r[1] = "raise"
Payload(r) == r[2]


\* ------------------------------------------------------------- str
Whitespace == {" ", "\t"}
Alphabet == Whitespace \cup {"a"}

\* str.lstrip() / str.rstrip() / str.strip() with no argument
RECURSIVE lstrip(_)
lstrip(s) == IF s # <<>> /\ Head(s) \in Whitespace THEN lstrip(Tail(s)) ELSE s

RECURSIVE rstrip(_)
rstrip(s) ==
    IF s # <<>> /\ s[Len(s)] \in Whitespace THEN rstrip(SubSeq(s, 1, Len(s) - 1)) ELSE s

strip(s) == rstrip(lstrip(s))

\* `sub in s` for two strs
Contains(s, sub) ==
    \E i \in 0..(Len(s) - Len(sub)) : SubSeq(s, i + 1, i + Len(sub)) = sub

BoundedSeq(S, n) == UNION {[1..k -> S] : k \in 0..n}

\* ------------------------------------------------------------- the provider
\* What the awaited client.post(...) yields: the transport raises, or an HTTP
\* response arrives with a status, a body text and the document the body text
\* decodes to (NotJson when it is not valid JSON).
NotJson == <<"invalid">>
TransportFailure(e) == <<"transport", e>>
HttpResponse(status, text, doc) == <<"http", status, text, doc>>
IsTransportFailure(resp) == resp[1] = "transport"
status_code(resp) == resp[2]
response_text(resp) == resp[3]
Document(resp) == resp[4]

ProviderFields ==
    {"food_name", "serving_qty", "serving_unit", "serving_weight_grams",
     "nf_calories", "nf_protein", "nf_total_fat", "nf_total_carbohydrate",
     "nf_dietary_fiber", "nf_sugars", "nf_sodium", "nf_cholesterol",
     "nf_potassium"}
TextFields == {"food_name", "serving_unit"}

LeafValues == {Str(<<"banana">>), Num(105), None}
FieldValues(f) == IF f \in TextFields THEN {Str(<<"banana">>), None} ELSE {Num(105), None}

\* Food records with at most MaxPresent fields, each a text, a number or null.
SparseRecords ==
    UNION {{r \in [S -> LeafValues] : \A f \in S : r[f] \in FieldValues(f)} :
           S \in {T \in SUBSET ProviderFields : Cardinality(T) <= MaxPresent}}

ExampleRecord == ("food_name" :> Str(<<"banana">>)) @@ ("nf_calories" :> Num(105))
FullRecord ==
    [f \in ProviderFields |-> IF f \in TextFields THEN Str(<<"banana">>) ELSE Num(105)]
OtherRecord ==
    [f \in ProviderFields |-> IF f \in TextFields THEN Str(<<"toast">>) ELSE Num(75)]

FoodRecords == SparseRecords \cup {ExampleRecord, FullRecord}

\* The first element of "foods" and the elements after it.
FirstElements ==
    {Obj(r) : r \in FoodRecords} \cup {Str(<<"x">>), Num(7), None, List(<<>>)}
LaterElements == {Obj(OtherRecord), Str(<<"y">>)}

FoodsLists ==
    {List(<<h>> \o t) : h \in FirstElements, t \in BoundedSeq(LaterElements, MaxFoods - 1)}

FoodsValues ==
    FoodsLists \cup
    {List(<<>>), None, Num(0), Str(<<>>), Bool(FALSE), Obj(EmptyDict),
     Num(5), Bool(TRUE), Str(<<"a", "b">>), Obj("0" :> Obj(ExampleRecord))}

Documents ==
    {Obj("foods" :> v) : v \in FoodsValues} \cup
    {Obj(EmptyDict), Obj("message" :> Str(<<"ok">>)),
     List(<<>>), List(<<Obj("foods" :> List(<<Obj(ExampleRecord)>>))>>),
     Str(<<"foods">>), Num(1), None, Bool(TRUE)}

TransportErrors ==
    {Exc("ConnectError", <<"All connection attempts failed">>, 0),
     Exc("ReadTimeout", <<>>, 0)}
FailureStatuses == {302, 400, 500}
ErrorBodies == {<<"bad request">>, <<"usage limits exceeded">>}

ProviderResponses ==
    {TransportFailure(e) : e \in TransportErrors} \cup
    {HttpResponse(st, b, NotJson) : st \in FailureStatuses, b \in ErrorBodies} \cup
    {HttpResponse(200, <<"<html>">>, NotJson)} \cup
    {HttpResponse(200, <<"json">>, d) : d \in Documents}

FoodQueries == BoundedSeq(Alphabet, MaxLen)

\* ------------------------------------------------------------- fetch_nutrition_data
\* response.raise_for_status(): HTTPStatusError unless the status is 2xx.
is_success(resp) == status_code(resp) \div 100 = 2

\* response.json()
response_json(resp) ==
    IF Document(resp) = NotJson
    THEN Raise(Exc("JSONDecodeError", <<"Expecting value: line 1 column 1 (char 0)">>, 0))
    ELSE Return(Document(resp))

\* data.get("foods"): only a dict has the attribute.
data_get_foods(data) ==
    IF data[1] = "obj"
    THEN Return(dict_get(data[2], "foods", None))
    ELSE Raise(Exc("AttributeError",
                   <<"'", TypeName(data), "' object has no attribute 'get'">>, 0))

\* foods_first taking the last element of the list instead of the first
foods_first_last(foods) ==
    CASE foods[1] = "list" -> Return(foods[2][Len(foods[2])])
      [] foods[1] = "str"  -> Return(Str(<<Head(foods[2])>>))
      [] foods[1] = "obj"  -> Raise(Exc("KeyError", <<"0">>, 0))
      [] OTHER -> Raise(Exc("TypeError",
                            <<"'", TypeName(foods), "' object is not subscriptable">>, 0))

\* data["foods"][0], for a truthy foods
foods_first(foods) ==
    CASE foods[1] = "list" -> Return(foods[2][1])
      [] foods[1] = "str"  -> Return(Str(<<Head(foods[2])>>))
      [] foods[1] = "obj"  -> Raise(Exc("KeyError", <<"0">>, 0))
      [] OTHER -> Raise(Exc("TypeError",
                            <<"'", TypeName(foods), "' object is not subscriptable">>, 0))

NoMatchMessage == <<"No nutrition data found for this query">>

\* The body of the try block, lines 82-97: the value returned or the exception
\* raised inside it.
fetch_try(resp) ==
    IF IsTransportFailure(resp) THEN Raise(resp[2])
    ELSE IF ~is_success(resp) THEN Raise(Exc("HTTPStatusError", <<"status error">>, 0))
    ELSE LET parsed == response_json(resp) IN
         IF IsRaise(parsed) THEN parsed
         ELSE LET got == data_get_foods(Payload(parsed)) IN
              IF IsRaise(got) THEN got
              ELSE IF ~Truthy(Payload(got))
                   THEN Raise(McpError(INVALID_PARAMS, NoMatchMessage))
                   ELSE foods_first(Payload(got))

\* fetch_except_status reporting str(e) rather than e.response.text
fetch_except_status_no_body(e, resp) ==
    Raise(McpError(INTERNAL_ERROR, <<"Nutritionix API error: ">> \o ExcText(e)))

\* except httpx.HTTPStatusError as e, lines 99-101
fetch_except_status(e, resp) ==
    Raise(McpError(INTERNAL_ERROR, <<"Nutritionix API error: ">> \o response_text(resp)))

\* fetch_except_other with a fixed message, str(e) left out
fetch_except_other_no_text(e) ==
    Raise(McpError(INTERNAL_ERROR, <<"Nutrition data fetch failed">>))

\* except Exception as e, lines 102-106: every other exception class, McpError
\* included, since McpError derives from Exception.
fetch_except_other(e) ==
    Raise(McpError(INTERNAL_ERROR, <<"Nutrition data fetch failed: ">> \o ExcText(e)))

fetch_nutrition_data(resp) ==
    LET r == fetch_try(resp) IN
    IF IsReturn(r) THEN r
    ELSE IF ExcClass(Payload(r)) = "HTTPStatusError"
         THEN fetch_except_status(Payload(r), resp)
         ELSE fetch_except_other(Payload(r))

\* ------------------------------------------------------------- analyze_nutrition
EmptyQueryMessage == <<"Food query cannot be empty">>

\* is_blank without the strip()
is_blank_no_strip(food_query) == food_query = <<>>

\* `if not food_query.strip()`, line 123
is_blank(food_query) == strip(food_query) = <<>>

\* nutrition_data.get(key, default), lines 134-151
record_get(nutrition_data, key, default) == dict_get(nutrition_data[2], key, default)

\* The dict literal of lines 133-154, for a nutrition_data that is a dict.
shape(nutrition_data) ==
    [food |-> record_get(nutrition_data, "food_name", Str(<<"Unknown">>)),
     serving |->
        [quantity |-> record_get(nutrition_data, "serving_qty", Num(1)),
         unit |-> record_get(nutrition_data, "serving_unit", Str(<<"serving">>)),
         weight_grams |-> record_get(nutrition_data, "serving_weight_grams", Num(0))],
     calories |-> record_get(nutrition_data, "nf_calories", Num(0)),
     macronutrients |->
        [protein_g |-> record_get(nutrition_data, "nf_protein", Num(0)),
         fat_g |-> record_get(nutrition_data, "nf_total_fat", Num(0)),
         carbs_g |-> record_get(nutrition_data, "nf_total_carbohydrate", Num(0)),
         fiber_g |-> record_get(nutrition_data, "nf_dietary_fiber", Num(0)),
         sugars_g |-> record_get(nutrition_data, "nf_sugars", Num(0))],
     micronutrients |->
        [sodium_mg |-> record_get(nutrition_data, "nf_sodium", Num(0)),
         cholesterol_mg |-> record_get(nutrition_data, "nf_cholesterol", Num(0)),
         potassium_mg |-> record_get(nutrition_data, "nf_potassium", Num(0))],
     source |-> Str(<<"Nutritionix API">>)]

\* analyze_try reading nutrition_data["food_name"] rather than .get("food_name", ...)
analyze_try_subscript(nutrition_data) ==
    IF nutrition_data[1] # "obj"
    THEN Raise(Exc("AttributeError",
                   <<"'", TypeName(nutrition_data), "' object has no attribute 'get'">>, 0))
    ELSE IF "food_name" \notin DOMAIN nutrition_data[2]
         THEN Raise(Exc("KeyError", <<"'food_name'">>, 0))
         ELSE Return(shape(nutrition_data))

\* Lines 133-154 inside the try: the first .get raises AttributeError unless
\* nutrition_data is a dict.
analyze_try(nutrition_data) ==
    IF nutrition_data[1] = "obj"
    THEN Return(shape(nutrition_data))
    ELSE Raise(Exc("AttributeError",
                   <<"'", TypeName(nutrition_data), "' object has no attribute 'get'">>, 0))

\* except Exception as e, lines 156-160
analyze_except(e) ==
    Raise(McpError(INTERNAL_ERROR, <<"Failed to analyze nutrition: ">> \o ExcText(e)))

\* Lines 129-160 once fetch_nutrition_data has completed with `fetched`.
analyze_after_fetch(fetched) ==
    IF IsRaise(fetched) THEN analyze_except(Payload(fetched))
    ELSE LET r == analyze_try(Payload(fetched)) IN
         IF IsReturn(r) THEN r ELSE analyze_except(Payload(r))

\* ------------------------------------------------------------- about, validate
about_payload ==
    [name |-> "NutritiWisdom",
     description |->
        "A MCP server which gives you nutritional information of various food items"]

\* validate returning the bearer token instead of the identifier
validate_payload_token(cfg) == cfg.TOKEN

validate_payload(cfg) == cfg.MY_NUMBER

\* ------------------------------------------------------------- state
VARIABLES
    config,          \* TOKEN, MY_NUMBER, NUTRITIONIX_APP_ID, NUTRITIONIX_APP_KEY
    about_result,    \* what the latest about() returned
    validate_result, \* what the latest validate() returned
    pc,              \* per invocation: where analyze_nutrition stands
    food_query,      \* per invocation: the argument
    posts,           \* per invocation: POSTs issued to the provider
    response,        \* per invocation: what client.post yielded
    nutrition_data,  \* per invocation: how fetch_nutrition_data completed
    outcome          \* per invocation: how analyze_nutrition completed

vars == <<config, about_result, validate_result, pc, food_query, posts, response,
          nutrition_data, outcome>>

Unset == <<"unset">>
Invocations == DOMAIN pc

\* The environment read at lines 29-32; the asserts of lines 34-37 hold.
Identifiers == {"919876543210", "910000000000"}
Configuration(number) ==
    [TOKEN |-> "secret", MY_NUMBER |-> number, NUTRITIONIX_APP_ID |-> "app-id",
     NUTRITIONIX_APP_KEY |-> "app-key"]

InitOver(ids, numbers) ==
    /\ config \in {Configuration(n) : n \in numbers}
    /\ about_result = Unset
    /\ validate_result = Unset
    /\ pc = [c \in ids |-> "idle"]
    /\ food_query = [c \in ids |-> Unset]
    /\ posts = [c \in ids |-> 0]
    /\ response = [c \in ids |-> Unset]
    /\ nutrition_data = [c \in ids |-> Unset]
    /\ outcome = [c \in ids |-> Unset]

Init == InitOver({1}, {"919876543210"})

calls == <<pc, food_query, posts, response, nutrition_data, outcome>>

\* ------------------------------------------------------------- actions
about ==
    /\ about_result' = Return(about_payload)
    /\ UNCHANGED <<config, validate_result, calls>>

validate ==
    /\ validate_result' = Return(validate_payload(config))
    /\ UNCHANGED <<config, about_result, calls>>

\* analyze_nutrition is called with food_query = q: lines 123-129.
analyze_nutrition(c, q) ==
    /\ pc[c] = "idle"
    /\ food_query' = [food_query EXCEPT ![c] = q]
    /\ posts' = [posts EXCEPT ![c] = 0]
    /\ IF is_blank(q)
       THEN /\ outcome' = [outcome EXCEPT ![c] =
                              Raise(McpError(INVALID_PARAMS, EmptyQueryMessage))]
            /\ pc' = [pc EXCEPT ![c] = "done"]
       ELSE /\ outcome' = outcome
            /\ pc' = [pc EXCEPT ![c] = "fetching"]
    /\ UNCHANGED <<config, about_result, validate_result, response, nutrition_data>>

\* fetch_nutrition_data sends the request: client.post(...), line 82.
client_post(c) ==
    /\ pc[c] = "fetching"
    /\ posts' = [posts EXCEPT ![c] = @ + 1]
    /\ pc' = [pc EXCEPT ![c] = "awaiting"]
    /\ UNCHANGED <<config, about_result, validate_result, food_query, response,
                   nutrition_data, outcome>>

\* fetch_complete that retries the request when the attempt failed
fetch_complete_retry(c, resp) ==
    /\ pc[c] = "awaiting"
    /\ response' = [response EXCEPT ![c] = resp]
    /\ nutrition_data' = [nutrition_data EXCEPT ![c] = fetch_nutrition_data(resp)]
    /\ pc' = [pc EXCEPT ![c] =
                 IF IsRaise(fetch_nutrition_data(resp)) /\ posts[c] < 2
                 THEN "fetching" ELSE "fetched"]
    /\ UNCHANGED <<config, about_result, validate_result, food_query, posts, outcome>>

\* fetch_complete keeping the fetched record in one module-level variable that
\* every invocation awaiting its shaping step then reads
fetch_complete_shared(c, resp) ==
    /\ pc[c] = "awaiting"
    /\ response' = [response EXCEPT ![c] = resp]
    /\ nutrition_data' =
          [d \in DOMAIN nutrition_data |->
              IF d = c \/ pc[d] = "fetched"
              THEN fetch_nutrition_data(resp) ELSE nutrition_data[d]]
    /\ pc' = [pc EXCEPT ![c] = "fetched"]
    /\ UNCHANGED <<config, about_result, validate_result, food_query, posts, outcome>>

\* The await of line 82 completes with resp; fetch_nutrition_data runs to its
\* return or raise, lines 88-106.
fetch_complete(c, resp) ==
    /\ pc[c] = "awaiting"
    /\ response' = [response EXCEPT ![c] = resp]
    /\ nutrition_data' = [nutrition_data EXCEPT ![c] = fetch_nutrition_data(resp)]
    /\ pc' = [pc EXCEPT ![c] = "fetched"]
    /\ UNCHANGED <<config, about_result, validate_result, food_query, posts, outcome>>

\* analyze_nutrition resumes after line 130 and returns or raises: lines 130-160.
analyze_complete(c) ==
    /\ pc[c] = "fetched"
    /\ outcome' = [outcome EXCEPT ![c] = analyze_after_fetch(nutrition_data[c])]
    /\ pc' = [pc EXCEPT ![c] = "done"]
    /\ UNCHANGED <<config, about_result, validate_result, food_query, posts, response,
                   nutrition_data>>

\* The caller has the result; the next tool call may come (stateless_http).
next_call(c) ==
    /\ pc[c] = "done"
    /\ pc' = [pc EXCEPT ![c] = "idle"]
    /\ food_query' = [food_query EXCEPT ![c] = Unset]
    /\ posts' = [posts EXCEPT ![c] = 0]
    /\ response' = [response EXCEPT ![c] = Unset]
    /\ nutrition_data' = [nutrition_data EXCEPT ![c] = Unset]
    /\ outcome' = [outcome EXCEPT ![c] = Unset]
    /\ UNCHANGED <<config, about_result, validate_result>>

\* One invocation of analyze_nutrition at a time, over every provider response.
Next ==
    \/ \E c \in Invocations, q \in FoodQueries : analyze_nutrition(c, q)
    \/ \E c \in Invocations : client_post(c)
    \/ \E c \in Invocations, resp \in ProviderResponses : fetch_complete(c, resp)
    \/ \E c \in Invocations : analyze_complete(c)
    \/ \E c \in Invocations : next_call(c)

Spec == Init /\ [][Next]_vars

\* ------------------------------------------------------------- the server
\* The three tools, with NumCalls invocations of analyze_nutrition in flight at
\* once (the event loop interleaves them at their awaits).
ConcQueries == {<<>>, <<" ">>, <<"a">>}
ConcResponses ==
    {TransportFailure(Exc("ReadTimeout", <<>>, 0)),
     HttpResponse(400, <<"bad request">>, NotJson),
     HttpResponse(200, <<"<html>">>, NotJson),
     HttpResponse(200, <<"json">>, Obj("foods" :> List(<<>>))),
     HttpResponse(200, <<"json">>, Obj("foods" :> List(<<Obj(ExampleRecord)>>))),
     HttpResponse(200, <<"json">>,
                  Obj("foods" :> List(<<Obj(OtherRecord), Obj(ExampleRecord)>>))),
     HttpResponse(200, <<"json">>, Obj("foods" :> List(<<Obj(EmptyDict)>>))),
     HttpResponse(200, <<"json">>, Obj("foods" :> List(<<Str(<<"x">>)>>)))}

InitServer == InitOver(1..NumCalls, Identifiers)

NextServer ==
    \/ about
    \/ validate
    \/ \E c \in Invocations, q \in ConcQueries : analyze_nutrition(c, q)
    \/ \E c \in Invocations : client_post(c)
    \/ \E c \in Invocations, resp \in ConcResponses : fetch_complete(c, resp)
    \/ \E c \in Invocations : analyze_complete(c)
    \/ \E c \in Invocations : next_call(c)

SpecServer == InitServer /\ [][NextServer]_vars

\* ------------------------------------------------------------- properties
\* The vocabulary of the statements, written from the provider's side.
Completed(c) == pc[c] = "done"
Fetched(c) == pc[c] \in {"fetched", "done"}

OnlyWhitespace(q) == \A i \in 1..Len(q) : q[i] \in {" ", "\t"}

IsJsonObject(resp) ==
    /\ resp[1] = "http"
    /\ status_code(resp) \in 200..299
    /\ Document(resp)[1] = "obj"

\* The provider answered with an object whose "foods" is missing or [].
FoodsMissingOrEmpty(resp) ==
    /\ IsJsonObject(resp)
    /\ \/ "foods" \notin DOMAIN Document(resp)[2]
       \/ /\ Document(resp)[2]["foods"][1] = "list"
          /\ Document(resp)[2]["foods"][2] = <<>>

\* The provider answered with an object whose "foods" is missing or falsy.
FoodsFalsy(resp) ==
    /\ IsJsonObject(resp)
    /\ \/ "foods" \notin DOMAIN Document(resp)[2]
       \/ ~Truthy(Document(resp)[2]["foods"])

HttpFailure(resp) == resp[1] = "http" /\ status_code(resp) \in 400..599

IsError(r, code) ==
    /\ IsRaise(r)
    /\ ExcClass(Payload(r)) = "McpError"
    /\ ExcCode(Payload(r)) = code

\* C1: a provider response that parses as JSON with "foods" missing or an empty
\* list makes fetch_nutrition_data fail with INVALID_PARAMS and the message
\* "No nutrition data found for this query".
C1_NoMatchIsInvalidParams ==
    \A c \in Invocations :
        Fetched(c) /\ FoodsMissingOrEmpty(response[c]) =>
            /\ IsError(nutrition_data[c], -32602)
            /\ ExcText(Payload(nutrition_data[c])) = <<"No nutrition data found for this query">>

\* C2: at the tool boundary the error is invalid-input for a blank query and for
\* a no-match, internal for every other failure, and an error raised by the
\* forwarder reaches the caller with its code unchanged.
C2_TaxonomyAtBoundary ==
    \A c \in Invocations :
        Completed(c) /\ IsRaise(outcome[c]) =>
            /\ IF OnlyWhitespace(food_query[c]) \/ FoodsMissingOrEmpty(response[c])
               THEN IsError(outcome[c], -32602)
               ELSE IsError(outcome[c], -32603)
            /\ (response[c] # Unset /\ IsRaise(nutrition_data[c])) =>
                   ExcCode(Payload(outcome[c])) = ExcCode(Payload(nutrition_data[c]))

\* C3: an empty or whitespace-only food_query ends the invocation, without any
\* fetch, in INVALID_PARAMS with exactly the message "Food query cannot be empty".
C3_BlankQueryRejected ==
    \A c \in Invocations :
        pc[c] # "idle" /\ OnlyWhitespace(food_query[c]) =>
            /\ Completed(c)
            /\ IsError(outcome[c], -32602)
            /\ ExcText(Payload(outcome[c])) = <<"Food query cannot be empty">>
            /\ response[c] = Unset

C3_Witness ==
    \E c \in Invocations :
        /\ Completed(c)
        /\ food_query[c] = <<" ", "\t">>
        /\ outcome[c] = Raise(<<"exc", "McpError", <<"Food query cannot be empty">>, -32602>>)

\* The table of the report: leaf, provider field, default.
ReportTable ==
    {<<<<"food">>, "food_name", Str(<<"Unknown">>)>>,
     <<<<"serving", "quantity">>, "serving_qty", Num(1)>>,
     <<<<"serving", "unit">>, "serving_unit", Str(<<"serving">>)>>,
     <<<<"serving", "weight_grams">>, "serving_weight_grams", Num(0)>>,
     <<<<"calories">>, "nf_calories", Num(0)>>,
     <<<<"macronutrients", "protein_g">>, "nf_protein", Num(0)>>,
     <<<<"macronutrients", "fat_g">>, "nf_total_fat", Num(0)>>,
     <<<<"macronutrients", "carbs_g">>, "nf_total_carbohydrate", Num(0)>>,
     <<<<"macronutrients", "fiber_g">>, "nf_dietary_fiber", Num(0)>>,
     <<<<"macronutrients", "sugars_g">>, "nf_sugars", Num(0)>>,
     <<<<"micronutrients", "sodium_mg">>, "nf_sodium", Num(0)>>,
     <<<<"micronutrients", "cholesterol_mg">>, "nf_cholesterol", Num(0)>>,
     <<<<"micronutrients", "potassium_mg">>, "nf_potassium", Num(0)>>}

Leaf(report, path) ==
    IF Len(path) = 1 THEN report[path[1]] ELSE report[path[1]][path[2]]

\* C4: on success the report is built from the first element of "foods" only:
\* each of the 13 leaves is that record's mapped field when present, else the
\* documented default, and source is "Nutritionix API".
C4_ReportFromFirstRecord ==
    \A c \in Invocations :
        Completed(c) /\ IsReturn(outcome[c]) =>
            /\ IsJsonObject(response[c])
            /\ "foods" \in DOMAIN Document(response[c])[2]
            /\ LET foods == Document(response[c])[2]["foods"]
                   report == Payload(outcome[c])
               IN  /\ foods[1] = "list"
                   /\ Len(foods[2]) >= 1
                   /\ foods[2][1][1] = "obj"
                   /\ \A row \in ReportTable :
                          Leaf(report, row[1]) =
                              IF row[2] \in DOMAIN foods[2][1][2]
                              THEN foods[2][1][2][row[2]]
                              ELSE row[3]
                   /\ report.source = Str(<<"Nutritionix API">>)

C4_Witness ==
    \E c \in Invocations :
        /\ Completed(c)
        /\ IsReturn(outcome[c])
        /\ IsJsonObject(response[c])
        /\ Document(response[c])[2]["foods"][2] =
               <<Obj(("food_name" :> Str(<<"banana">>)) @@ ("nf_calories" :> Num(105))),
                 Obj(OtherRecord)>>
        /\ Payload(outcome[c]).food = Str(<<"banana">>)
        /\ Payload(outcome[c]).calories = Num(105)
        /\ Payload(outcome[c]).serving.unit = Str(<<"serving">>)
        /\ Payload(outcome[c]).macronutrients.protein_g = Num(0)

\* C5: a provider response with a 4xx/5xx status and body text B makes
\* fetch_nutrition_data fail with INTERNAL_ERROR and a message containing B, and
\* the error analyze_nutrition surfaces is INTERNAL_ERROR and contains B too.
C5_HttpFailureCarriesBody ==
    \A c \in Invocations :
        Fetched(c) /\ HttpFailure(response[c]) =>
            /\ IsError(nutrition_data[c], -32603)
            /\ Contains(ExcText(Payload(nutrition_data[c])), response_text(response[c]))
            /\ Completed(c) =>
                   /\ IsError(outcome[c], -32603)
                   /\ Contains(ExcText(Payload(outcome[c])), response_text(response[c]))

C5_Witness ==
    \E c \in Invocations :
        /\ Completed(c)
        /\ response[c] = HttpResponse(400, <<"bad request">>, NotJson)
        /\ IsError(outcome[c], -32603)
        /\ Contains(ExcText(Payload(outcome[c])), <<"bad request">>)

\* C6: an invocation issues at most one POST: none when food_query is blank,
\* exactly one when it is not, whatever the outcome of the request.
C6_AtMostOnePost ==
    \A c \in Invocations :
        /\ posts[c] <= 1
        /\ Fetched(c) =>
               posts[c] = IF OnlyWhitespace(food_query[c]) THEN 0 ELSE 1

C6_Witness ==
    \E c \in Invocations :
        /\ Completed(c)
        /\ posts[c] = 1
        /\ IsRaise(nutrition_data[c])
        /\ IsRaise(outcome[c])

ReportComplete(report) ==
    /\ DOMAIN report =
           {"food", "serving", "calories", "macronutrients", "micronutrients", "source"}
    /\ DOMAIN report.serving = {"quantity", "unit", "weight_grams"}
    /\ DOMAIN report.macronutrients =
           {"protein_g", "fat_g", "carbs_g", "fiber_g", "sugars_g"}
    /\ DOMAIN report.micronutrients = {"sodium_mg", "cholesterol_mg", "potassium_mg"}

\* C7: a completed invocation ends either in a report with all 13 leaves and
\* source, or in an McpError with a code and a message; when the forwarder
\* returned a mapping (the empty one included) the invocation succeeds.
C7_NoPartialSuccess ==
    \A c \in Invocations :
        Completed(c) =>
            /\ \/ IsReturn(outcome[c]) /\ ReportComplete(Payload(outcome[c]))
               \/ /\ IsError(outcome[c], -32602) \/ IsError(outcome[c], -32603)
                  /\ ExcText(Payload(outcome[c])) # <<>>
            /\ (response[c] # Unset /\ IsReturn(nutrition_data[c])
                    /\ Payload(nutrition_data[c])[1] = "obj") => IsReturn(outcome[c])

C7_Witness ==
    \E c \in Invocations :
        /\ Completed(c)
        /\ nutrition_data[c] = Return(Obj(EmptyDict))
        /\ IsReturn(outcome[c])
        /\ Payload(outcome[c]).food = Str(<<"Unknown">>)

\* The exception a response other than a no-match or a status failure raises
\* inside the forwarder.
UnderlyingText(resp) ==
    IF resp[1] = "transport" THEN ExcText(resp[2]) ELSE ExcText(Payload(fetch_try(resp)))

\* C8: a forwarder failure that is neither a no-match nor an HTTP status failure
\* is an INTERNAL_ERROR whose message carries the text of the exception.
C8_OtherFailureCarriesText ==
    \A c \in Invocations :
        (/\ Fetched(c)
         /\ response[c] # Unset
         /\ IsRaise(nutrition_data[c])
         /\ ~FoodsFalsy(response[c])
         /\ ~(response[c][1] = "http" /\ status_code(response[c]) \notin 200..299)) =>
            /\ IsError(nutrition_data[c], -32603)
            /\ ExcText(Payload(nutrition_data[c])) =
                   <<"Nutrition data fetch failed: ">> \o UnderlyingText(response[c])

C8_Witness ==
    \E c \in Invocations :
        /\ Fetched(c)
        /\ response[c][1] = "http"
        /\ Document(response[c]) = NotJson
        /\ status_code(response[c]) = 200
        /\ nutrition_data[c] =
               Raise(<<"exc", "McpError",
                       <<"Nutrition data fetch failed: ",
                         "Expecting value: line 1 column 1 (char 0)">>, -32603>>)

\* C9: no tool call changes the configuration; about() returns the same
\* {name, description} object and validate() returns MY_NUMBER, also after
\* failed analyze_nutrition calls.
C9_ConfigurationFrame ==
    [][/\ config' = config
       /\ about_result' # Unset =>
              /\ DOMAIN Payload(about_result') = {"name", "description"}
              /\ about_result # Unset => about_result' = about_result
       /\ validate_result' # Unset => validate_result' = Return(config.MY_NUMBER)]_vars

C9_Witness ==
    \E c \in Invocations :
        /\ Completed(c)
        /\ IsRaise(outcome[c])
        /\ about_result # Unset
        /\ validate_result = Return(config.MY_NUMBER)

\* An invocation run alone on food_query q whose request is answered by resp.
RunAlone(q, resp) ==
    IF OnlyWhitespace(q)
    THEN Raise(McpError(INVALID_PARAMS, EmptyQueryMessage))
    ELSE analyze_after_fetch(fetch_nutrition_data(resp))

\* C10: in every interleaving of concurrent invocations, the outcome of each is
\* determined by its own food_query and the response to its own request, and
\* is what the invocation yields when run alone.
C10_Independent ==
    \A c \in Invocations :
        /\ (pc[c] = "fetched") => nutrition_data[c] = fetch_nutrition_data(response[c])
        /\ Completed(c) => outcome[c] = RunAlone(food_query[c], response[c])

C10_Witness ==
    \E c, d \in Invocations :
        /\ c # d
        /\ pc[c] = "fetched" /\ pc[d] = "fetched"
        /\ IsReturn(nutrition_data[c])
        /\ IsRaise(nutrition_data[d])
        /\ response[c] # response[d]
====
